---------------------------- MODULE Spec2Model ----------------------------
(***************************************************************************)
(* Model of the AITuberTalk Python SDK (src/python/aitubertalk).           *)
(*                                                                         *)
(* Every SDK client owns an AuthModule, a RoomModule and a DialogueModule. *)
(* The public operations are coroutines: each runs without interruption    *)
(* up to its "await asyncio.sleep(...)", where other coroutines of the     *)
(* same event loop (and other clients) may run, and then runs to its end.  *)
(* A coroutine is therefore modelled by two actions, <Op>Start (the code   *)
(* before the await) and <Op>Finish (the code after it); the locals it     *)
(* captured before the await are kept in its task record; the tasks of a   *)
(* client are the bag of the coroutines it has suspended at an await.      *)
(*                                                                         *)
(* Time is datetime.now(), in seconds.  The clock advances in steps of     *)
(* TickStep seconds; the simulated network delays (0.05 s to 0.2 s) are    *)
(* shorter than a step, so a Finish action may follow its Start action at  *)
(* the same instant or at any later one.  A speech lasts len(text) * 0.05  *)
(* seconds and ends no earlier than that.                                  *)
(*                                                                         *)
(* Handlers and callbacks are registered in Python lists; an emission is   *)
(* the loop "for handler in list" over the list itself, inside the step    *)
(* that emits.  A handler is known by what it does when invoked: it        *)
(* returns, raises, removes its own registration, or is a coroutine        *)
(* function, for which the loop only creates a task that runs later.       *)
(*                                                                         *)
(* dialogue/types.py declares FloorState with a defaulted field before a   *)
(* non-defaulted one; the model takes the dataclasses as plain records.    *)
(***************************************************************************)
EXTENDS Integers, Sequences, FiniteSets, Bags

\* ------------------------------------------------------------------ bounds

\* The SDK clients (participants' processes) of the model.
Clients == {"c1", "c2", "c3"}

\* Coroutines one client may have in flight at the same time.
MaxTasks == 2

\* Seconds the clock advances in one step, and the last instant modelled.
TickStep == 15
MaxTime == 45

\* Participants created over a behaviour (each join draws a fresh uuid4).
MaxJoins == 3

\* Room ids passed to join.
RoomIds == {"room-1", "room-2"}

\* len(text) of the texts passed to speak.
TextLengths == {200, 800}

\* Priorities passed to request_floor (1 is the default of the parameter).
Priorities == {1, 3, 5}

\* Emails passed to sign_in_with_email and sign_up_with_email.
Emails == {"a@example.com", "b@example.com"}

\* The handlers and callbacks a program registers, named by what they do
\* when invoked: "plain" returns, "raising" raises an Exception, "once"
\* calls the unsubscribe function of its own registration, "coroutine" is an
\* "async def" function.
Handlers == {"plain", "raising", "once", "coroutine"}

\* Registrations one list of handlers may hold.
MaxHandlers == 2

\* The local tracks the program has created (their track ids).
Tracks == {"track-1", "track-2"}

\* ------------------------------------------------------- values of the code

\* Python's None for an Optional[str] room id, an Optional participant id
\* and an Optional[User].
NoRoom == "none"
NoParticipant == 0
NoUser == [uid |-> "none", email |-> "none"]

\* The User built by a sign-in (display name and photo left out).
User(uid, email) == [uid |-> uid, email |-> email]

\* The names of SystemEvent that the modelled operations emit through
\* client._emit_event, and so the keys of client._event_handlers.
SystemEvent == {"connected", "disconnected", "room-joined", "room-left",
                "floor-released", "track-published", "track-unpublished"}

\* The callback lists of the auth and dialogue modules.
CallbackLists == {"_auth_state_callbacks", "_floor_granted_callbacks",
                  "_floor_state_callbacks", "_track_published_callbacks"}

\* FloorToken.max_duration and the timedelta of expires_at, in seconds.
max_duration == 30

\* The default of request_floor's parameter priority.
default_priority == 1

FloorToken(room, participant, t) ==
    [room_id |-> room, participant_id |-> participant,
     granted_at |-> t, expires_at |-> t + max_duration,
     max_duration |-> max_duration]

\* None for an Optional[FloorToken].
NoToken ==
    [room_id |-> NoRoom, participant_id |-> NoParticipant,
     granted_at |-> 0, expires_at |-> 0, max_duration |-> 0]

\* The values of the enum FloorSystemState.
FloorSystemState == {"idle", "thinking", "preparing", "speaking", "cooldown"}

\* A variant of the expiry test that also rejects the instant expires_at.
TokenExpiredAtOrAfter(tok, t) == t >= tok.expires_at

\* speak's test "datetime.now() > self._current_floor_token.expires_at".
TokenExpired(tok, t) == t > tok.expires_at

\* A variant of the snapshot with the two states of the conditional swapped.
MockFloorStateInverted(tok, t) ==
    LET current_holder == IF tok # NoToken THEN tok.participant_id ELSE NoParticipant
    IN [current_holder |-> current_holder,
        state |-> IF current_holder = NoParticipant THEN "speaking" ELSE "idle",
        queue |-> <<>>,
        last_state_change |-> t]

\* A variant of the snapshot that lists the holder in the queue.
MockFloorStateQueueingHolder(tok, t) ==
    LET current_holder == IF tok # NoToken THEN tok.participant_id ELSE NoParticipant
    IN [current_holder |-> current_holder,
        state |-> IF current_holder = NoParticipant THEN "idle" ELSE "speaking",
        queue |-> IF current_holder = NoParticipant
                  THEN <<>>
                  ELSE <<[participant_id |-> current_holder, priority |-> 1,
                          queued_at |-> t]>>,
        last_state_change |-> t]

\* The snapshot get_floor_state builds from the module's token at time t:
\* the state is the string "idle" or "speaking", the queue is empty.
MockFloorState(tok, t) ==
    LET current_holder == IF tok # NoToken THEN tok.participant_id ELSE NoParticipant
    IN [current_holder |-> current_holder,
        state |-> IF current_holder = NoParticipant THEN "idle" ELSE "speaking",
        queue |-> <<>>,
        last_state_change |-> t]

\* "await asyncio.sleep(len(text) * 0.05)": the seconds a speech of n
\* characters takes.
SpeechSeconds(n) == n \div 20

\* A text argument of speak that is no string (None, say): "text[:50]" and
\* "len(text)" raise TypeError for it.  It stands in the place of len(text).
NotText == -1

\* ------------------------------------------------------------------- state

VARIABLES
    now,                  \* datetime.now(), in seconds
    current_user,         \* AuthModule._current_user, per client
    current_room,         \* RoomModule._current_room (its id), per client
    current_participant,  \* RoomModule._current_participant (its id), per client
    current_floor_token,  \* DialogueModule._current_floor_token, per client
    tasks,                \* the bag of suspended coroutines, per client
    next_pid,             \* the next fresh participant id (uuid4)
    ret,                  \* what the last step returned or raised to its caller
    emitted,              \* the notifications and events the last step sent
    connected,            \* AITuberTalkClient._connected, per client
    event_handlers,       \* AITuberTalkClient._event_handlers, per client and event
    callbacks,            \* the modules' callback lists, per client and list
    published_tracks,     \* MediaModule._published_tracks (the track ids), per client
    enabled,              \* LocalTrack.enabled, per track
    invoked               \* the handlers the last step invoked, in order

vars == <<now, current_user, current_room, current_participant,
          current_floor_token, tasks, next_pid, ret, emitted,
          connected, event_handlers, callbacks, invoked,
          published_tracks, enabled>>

NoRet == [kind |-> "none"]

Pending(c, op) == [kind |-> "pending", client |-> c, op |-> op]
Returned(c, op, v) == [kind |-> "return", client |-> c, op |-> op, value |-> v]
Raised(c, op, code, retryable) ==
    [kind |-> "raise", client |-> c, op |-> op, code |-> code, retryable |-> retryable]

\* Client c, which awaits at most m calls at a time, may make a call.
CanStart(c, m) == BagCardinality(tasks[c]) < m

\* The coroutines of client c suspended at their await.
Suspended(c) == BagToSet(tasks[c])

\* Coroutine t of client c reaches its await; it resumes and runs to its end.
Suspend(c, t) == [tasks EXCEPT ![c] = @ (+) SetToBag({t})]
Resume(c, t) == [tasks EXCEPT ![c] = @ (-) SetToBag({t})]

\* ------------------------------------------------------ handlers, callbacks

\* list.remove(h): the list without the first occurrence of h; the
\* unsubscribe functions and client.off leave the list alone when h is not
\* in it.
Remove(list, h) ==
    IF \E i \in DOMAIN list : list[i] = h
    THEN LET k == CHOOSE i \in DOMAIN list :
                     list[i] = h /\ \A j \in 1..(i - 1) : list[j] # h
         IN SubSeq(list, 1, k - 1) \o SubSeq(list, k + 1, Len(list))
    ELSE list

\* An emission that has invoked nothing yet.
NothingDone ==
    [handlers |-> <<>>, invoked |-> <<>>, created |-> EmptyBag, failed |-> FALSE]

\* A variant of the loop without its try/except: the exception of a handler
\* ends the loop and reaches the emitting operation.
RECURSIVE NotifyUnguarded(_, _, _, _)
NotifyUnguarded(list, i, e, done) ==
    IF i > Len(list)
    THEN [done EXCEPT !.handlers = list]
    ELSE LET h == list[i]
             call == [handler |-> h, event |-> e]
         IN IF h = "coroutine"
            THEN NotifyUnguarded(list, i + 1, e,
                     [done EXCEPT !.created = @ (+) SetToBag({[op |-> "callback",
                                                                handler |-> h,
                                                                event |-> e]})])
            ELSE IF h = "raising"
            THEN [done EXCEPT !.handlers = list,
                              !.invoked = Append(@, call),
                              !.failed = TRUE]
            ELSE NotifyUnguarded(IF h = "once" THEN Remove(list, h) ELSE list,
                                 i + 1, e,
                                 [done EXCEPT !.invoked = Append(@, call)])

\* The loop of _emit_event and of the _notify_* methods, from position i of
\* the list on, for the event e:
\*     for handler in list:
\*         try: create_task(handler(*args)) if it is a coroutine function
\*              else handler(*args)
\*         except Exception: log
\* Python's list iterator keeps a position in the list itself: it ends when
\* the position is beyond the list's present length, so a handler that
\* removes an entry at or before its own position moves the next entry to
\* the position already visited.  The result: the list afterwards, the
\* handlers invoked in order, the tasks created, and no failure.
RECURSIVE Notify(_, _, _, _)
Notify(list, i, e, done) ==
    IF i > Len(list)
    THEN [done EXCEPT !.handlers = list]
    ELSE LET h == list[i]
             call == [handler |-> h, event |-> e]
         IN IF h = "coroutine"
            THEN Notify(list, i + 1, e,
                     [done EXCEPT !.created = @ (+) SetToBag({[op |-> "callback",
                                                                handler |-> h,
                                                                event |-> e]})])
            ELSE Notify(IF h = "once" THEN Remove(list, h) ELSE list,
                        i + 1, e,
                        [done EXCEPT !.invoked = Append(@, call)])

\* client._emit_event(event, *args) of client c; e is the event with its
\* arguments.
emit_event(c, event, e) == Notify(event_handlers[c][event], 1, e, NothingDone)

\* _notify_auth_state_change(user) and _notify_floor_granted(token).
notify_auth_state_change(c, e) ==
    Notify(callbacks[c]["_auth_state_callbacks"], 1, e, NothingDone)
notify_floor_granted(c, e) ==
    Notify(callbacks[c]["_floor_granted_callbacks"], 1, e, NothingDone)

\* The tasks of client c after an emission with result d, from the tasks tk.
WithCreated(tk, c, d) == [tk EXCEPT ![c] = @ (+) d.created]

Init ==
    /\ now = 0
    /\ current_user = [c \in Clients |-> NoUser]
    /\ current_room = [c \in Clients |-> NoRoom]
    /\ current_participant = [c \in Clients |-> NoParticipant]
    /\ current_floor_token = [c \in Clients |-> NoToken]
    /\ tasks = [c \in Clients |-> EmptyBag]
    /\ next_pid = 1
    /\ ret = NoRet
    /\ emitted = <<>>
    /\ connected = [c \in Clients |-> FALSE]
    /\ event_handlers = [c \in Clients |-> [e \in SystemEvent |-> <<>>]]
    /\ callbacks = [c \in Clients |-> [l \in CallbackLists |-> <<>>]]
    /\ invoked = <<>>
    /\ published_tracks = [c \in Clients |-> {}]
    /\ enabled = [t \in Tracks |-> TRUE]

\* --------------------------------------------------------------------- clock

Tick ==
    /\ now + TickStep <= MaxTime
    /\ now' = now + TickStep
    /\ ret' = NoRet
    /\ emitted' = <<>>
    /\ invoked' = <<>>
    /\ UNCHANGED <<published_tracks, enabled>>
    /\ UNCHANGED <<connected, event_handlers, callbacks>>
    /\ UNCHANGED <<current_user, current_room, current_participant,
                   current_floor_token, tasks, next_pid>>

\* -------------------------------------------------------------------- client

\* A variant of connect that does not set the flag.
ConnectWithoutFlag(c) ==
    LET e == [event |-> "connected", client |-> c]
        d == emit_event(c, "connected", e)
    IN /\ event_handlers' = [event_handlers EXCEPT ![c]["connected"] = d.handlers]
       /\ invoked' = d.invoked
       /\ UNCHANGED <<published_tracks, enabled>>
       /\ tasks' = WithCreated(tasks, c, d)
       /\ emitted' = <<e>>
       /\ ret' = Returned(c, "connect", TRUE)
       /\ UNCHANGED <<now, current_user, current_room, current_participant,
                      current_floor_token, next_pid, callbacks, connected>>

\* connect(): it has no await.  The flag is set, then CONNECTED is emitted; a
\* failure of the emission would be raised as CONNECTION_FAILED, retryable.
Connect(c) ==
    LET e == [event |-> "connected", client |-> c]
        d == emit_event(c, "connected", e)
    IN /\ connected' = [connected EXCEPT ![c] = TRUE]
       /\ event_handlers' = [event_handlers EXCEPT ![c]["connected"] = d.handlers]
       /\ invoked' = d.invoked
       /\ UNCHANGED <<published_tracks, enabled>>
       /\ tasks' = WithCreated(tasks, c, d)
       /\ emitted' = <<e>>
       /\ ret' = IF d.failed
                 THEN Raised(c, "connect", "CONNECTION_FAILED", TRUE)
                 ELSE Returned(c, "connect", TRUE)
       /\ UNCHANGED <<now, current_user, current_room, current_participant,
                      current_floor_token, next_pid, callbacks>>

\* disconnect(): it has no await.  The flag is cleared, then DISCONNECTED is
\* emitted; a failure is logged.
Disconnect(c) ==
    LET e == [event |-> "disconnected", client |-> c]
        d == emit_event(c, "disconnected", e)
    IN /\ connected' = [connected EXCEPT ![c] = FALSE]
       /\ event_handlers' = [event_handlers EXCEPT ![c]["disconnected"] = d.handlers]
       /\ invoked' = d.invoked
       /\ UNCHANGED <<published_tracks, enabled>>
       /\ tasks' = WithCreated(tasks, c, d)
       /\ emitted' = <<e>>
       /\ ret' = Returned(c, "disconnect", FALSE)
       /\ UNCHANGED <<now, current_user, current_room, current_participant,
                      current_floor_token, next_pid, callbacks>>

\* A variant of start() that does not connect a client that is not connected.
StartStartWithoutConnect(c, m) ==
    /\ CanStart(c, m)
    /\ tasks' = Suspend(c, [op |-> "start"])
    /\ ret' = Pending(c, "start")
    /\ emitted' = <<>>
    /\ invoked' = <<>>
    /\ UNCHANGED <<published_tracks, enabled>>
    /\ UNCHANGED <<now, current_user, current_room, current_participant,
                   current_floor_token, next_pid, callbacks, connected,
                   event_handlers>>

\* start() up to its first sleep: a client that is not connected is connected
\* by connect(), which has no await and so runs within this step; the loop
\* then finds the client connected and sleeps.
StartStart(c, m) ==
    /\ CanStart(c, m)
    /\ LET e == [event |-> "connected", client |-> c]
           d == IF connected[c]
                THEN [NothingDone EXCEPT !.handlers = event_handlers[c]["connected"]]
                ELSE emit_event(c, "connected", e)
       IN /\ connected' = [connected EXCEPT ![c] = TRUE]
          /\ event_handlers' = [event_handlers EXCEPT ![c]["connected"] = d.handlers]
          /\ invoked' = d.invoked
          /\ UNCHANGED <<published_tracks, enabled>>
          /\ emitted' = IF connected[c] THEN <<>> ELSE <<e>>
          /\ IF d.failed
             THEN /\ tasks' = WithCreated(tasks, c, d)
                  /\ ret' = Raised(c, "start", "CONNECTION_FAILED", TRUE)
             ELSE /\ tasks' = WithCreated(Suspend(c, [op |-> "start"]), c, d)
                  /\ ret' = Pending(c, "start")
    /\ UNCHANGED <<now, current_user, current_room, current_participant,
                   current_floor_token, next_pid, callbacks>>

\* start() waking from a sleep: while the client is connected it sleeps again,
\* which changes nothing; once it is not, the loop ends, the finally clause
\* calls disconnect(), and start() returns.
StartFinish(c, t) ==
    /\ t \in Suspended(c)
    /\ t.op = "start"
    /\ ~connected[c]
    /\ LET e == [event |-> "disconnected", client |-> c]
           d == emit_event(c, "disconnected", e)
       IN /\ connected' = [connected EXCEPT ![c] = FALSE]
          /\ event_handlers' = [event_handlers EXCEPT ![c]["disconnected"] = d.handlers]
          /\ invoked' = d.invoked
          /\ UNCHANGED <<published_tracks, enabled>>
          /\ tasks' = WithCreated(Resume(c, t), c, d)
          /\ emitted' = <<e>>
          /\ ret' = Returned(c, "start", FALSE)
    /\ UNCHANGED <<now, current_user, current_room, current_participant,
                   current_floor_token, next_pid, callbacks>>

\* The registration an on() or off() call names.
Registration(event, handler) == [event |-> event, handler |-> handler]

\* client.on(event, handler): the handler is appended to the event's list.
on(c, event, handler) ==
    /\ Len(event_handlers[c][event]) < MaxHandlers
    /\ event_handlers' = [event_handlers EXCEPT ![c][event] = Append(@, handler)]
    /\ ret' = Returned(c, "on", Registration(event, handler))
    /\ emitted' = <<>>
    /\ invoked' = <<>>
    /\ UNCHANGED <<published_tracks, enabled>>
    /\ UNCHANGED <<now, current_user, current_room, current_participant,
                   current_floor_token, tasks, next_pid, connected, callbacks>>

\* The unsubscribe function that client.on(event, handler) returned: the
\* first entry of the event's list equal to the handler is removed.
unsubscribe(c, event, handler) ==
    /\ event_handlers' = [event_handlers EXCEPT ![c][event] = Remove(@, handler)]
    /\ ret' = Returned(c, "unsubscribe", Registration(event, handler))
    /\ emitted' = <<>>
    /\ invoked' = <<>>
    /\ UNCHANGED <<published_tracks, enabled>>
    /\ UNCHANGED <<now, current_user, current_room, current_participant,
                   current_floor_token, tasks, next_pid, connected, callbacks>>

\* The caller of on() calls the unsubscribe function that on() has just
\* returned to it.
unsubscribe_returned(c) ==
    /\ ret.kind = "return"
    /\ ret.op = "on"
    /\ ret.client = c
    /\ unsubscribe(c, ret.value.event, ret.value.handler)

\* The caller calls once more the unsubscribe function it has just called.
unsubscribe_again(c) ==
    /\ ret.kind = "return"
    /\ ret.op \in {"unsubscribe", "unsubscribe_again"}
    /\ ret.client = c
    /\ event_handlers' = [event_handlers EXCEPT
                             ![c][ret.value.event] = Remove(@, ret.value.handler)]
    /\ ret' = Returned(c, "unsubscribe_again", ret.value)
    /\ emitted' = <<>>
    /\ invoked' = <<>>
    /\ UNCHANGED <<published_tracks, enabled>>
    /\ UNCHANGED <<now, current_user, current_room, current_participant,
                   current_floor_token, tasks, next_pid, connected, callbacks>>

\* client.off(event, handler): the same removal.
off(c, event, handler) ==
    /\ event_handlers' = [event_handlers EXCEPT ![c][event] = Remove(@, handler)]
    /\ ret' = Returned(c, "off", Registration(event, handler))
    /\ emitted' = <<>>
    /\ invoked' = <<>>
    /\ UNCHANGED <<published_tracks, enabled>>
    /\ UNCHANGED <<now, current_user, current_room, current_participant,
                   current_floor_token, tasks, next_pid, connected, callbacks>>

\* on_auth_state_change, on_floor_granted and on_floor_state_change, named
\* op, of client c: the callback is appended to the list l.
Register(c, op, l, callback) ==
    /\ Len(callbacks[c][l]) < MaxHandlers
    /\ callbacks' = [callbacks EXCEPT ![c][l] = Append(@, callback)]
    /\ ret' = Returned(c, op, Registration(l, callback))
    /\ emitted' = <<>>
    /\ invoked' = <<>>
    /\ UNCHANGED <<published_tracks, enabled>>
    /\ UNCHANGED <<now, current_user, current_room, current_participant,
                   current_floor_token, tasks, next_pid, connected, event_handlers>>

on_auth_state_change(c, callback) ==
    Register(c, "on_auth_state_change", "_auth_state_callbacks", callback)

on_floor_granted(c, callback) ==
    Register(c, "on_floor_granted", "_floor_granted_callbacks", callback)

on_floor_state_change(c, callback) ==
    Register(c, "on_floor_state_change", "_floor_state_callbacks", callback)

\* The unsubscribe function one of them returned: the callback is removed
\* from the list l if it is in it.
unsubscribe_callback(c, l, callback) ==
    /\ callbacks' = [callbacks EXCEPT ![c][l] = Remove(@, callback)]
    /\ ret' = Returned(c, "unsubscribe", Registration(l, callback))
    /\ emitted' = <<>>
    /\ invoked' = <<>>
    /\ UNCHANGED <<published_tracks, enabled>>
    /\ UNCHANGED <<now, current_user, current_room, current_participant,
                   current_floor_token, tasks, next_pid, connected, event_handlers>>

\* A task that an emission created for a coroutine handler runs.
CallbackRun(c, t) ==
    /\ t \in Suspended(c)
    /\ t.op = "callback"
    /\ tasks' = Resume(c, t)
    /\ invoked' = <<[handler |-> t.handler, event |-> t.event]>>
    /\ UNCHANGED <<published_tracks, enabled>>
    /\ ret' = NoRet
    /\ emitted' = <<>>
    /\ UNCHANGED <<now, current_user, current_room, current_participant,
                   current_floor_token, next_pid, connected, event_handlers,
                   callbacks>>

\* ---------------------------------------------------------------------- auth

\* The email of the sign-ins of the specifications that are not about users.
default_email == "a@example.com"

\* The end of a sign-in of client c, named op, that built the User user: the
\* user is stored, the auth callbacks are notified, the AuthResult returned.
SignedIn(c, op, user) ==
    LET e == [event |-> "auth-state", client |-> c, user |-> user]
        d == notify_auth_state_change(c, e)
    IN /\ current_user' = [current_user EXCEPT ![c] = user]
       /\ callbacks' = [callbacks EXCEPT ![c]["_auth_state_callbacks"] = d.handlers]
       /\ invoked' = d.invoked
       /\ UNCHANGED <<published_tracks, enabled>>
       /\ tasks' = WithCreated(tasks, c, d)
       /\ emitted' = <<e>>
       /\ ret' = IF d.failed
                 THEN Raised(c, op, "AUTH_FAILED", FALSE)
                 ELSE Returned(c, op, user)
       /\ UNCHANGED <<now, current_room, current_participant,
                      current_floor_token, next_pid, connected, event_handlers>>

\* sign_in_with_email(email, password): nothing but logging happens before
\* its await, so the call is one step, taken when the await is over.
SignIn(c, email) == SignedIn(c, "sign_in_with_email", User("mock-user-id", email))

\* sign_up_with_email(email, password), likewise.
SignUp(c, email) == SignedIn(c, "sign_up_with_email", User("mock-new-user-id", email))

\* sign_in_with_google(), likewise; the mock user's email is fixed.
SignInWithGoogle(c) ==
    SignedIn(c, "sign_in_with_google", User("mock-google-user-id", "user@gmail.com"))

\* A variant of sign_out that keeps the user.
SignOutKeepingUser(c) ==
    LET e == [event |-> "auth-state", client |-> c, user |-> NoUser]
        d == notify_auth_state_change(c, e)
    IN /\ callbacks' = [callbacks EXCEPT ![c]["_auth_state_callbacks"] = d.handlers]
       /\ invoked' = d.invoked
       /\ UNCHANGED <<published_tracks, enabled>>
       /\ tasks' = WithCreated(tasks, c, d)
       /\ emitted' = <<e>>
       /\ ret' = Returned(c, "sign_out", NoUser)
       /\ UNCHANGED <<now, current_user, current_room, current_participant,
                      current_floor_token, next_pid, connected, event_handlers>>

\* sign_out(): it has no await; a failure of the notification is logged.
SignOut(c) ==
    LET e == [event |-> "auth-state", client |-> c, user |-> NoUser]
        d == notify_auth_state_change(c, e)
    IN /\ current_user' = [current_user EXCEPT ![c] = NoUser]
       /\ callbacks' = [callbacks EXCEPT ![c]["_auth_state_callbacks"] = d.handlers]
       /\ invoked' = d.invoked
       /\ UNCHANGED <<published_tracks, enabled>>
       /\ tasks' = WithCreated(tasks, c, d)
       /\ emitted' = <<e>>
       /\ ret' = Returned(c, "sign_out", NoUser)
       /\ UNCHANGED <<now, current_room, current_participant,
                      current_floor_token, next_pid, connected, event_handlers>>

\* get_current_user(): a plain read.
get_current_user(c) == current_user[c]

\* --------------------------------------------------------------------- rooms

\* The join calls suspended at their await, over the clients in S.
RECURSIVE JoinsInFlight(_)
JoinsInFlight(S) ==
    IF S = {} THEN 0
    ELSE LET c == CHOOSE x \in S : TRUE
             joins == {t \in Suspended(c) : t.op = "join"}
         IN BagCardinality([t \in joins |-> tasks[c][t]]) + JoinsInFlight(S \ {c})

\* A variant of join without the test of the signed-in user.
JoinStartUnchecked(c, m, r) ==
    /\ CanStart(c, m)
    /\ next_pid + JoinsInFlight(Clients) <= MaxJoins
    /\ ret' = Pending(c, "join")
    /\ tasks' = Suspend(c, [op |-> "join", room |-> r])
    /\ emitted' = <<>>
    /\ invoked' = <<>>
    /\ UNCHANGED <<published_tracks, enabled>>
    /\ UNCHANGED <<connected, event_handlers, callbacks>>
    /\ UNCHANGED <<now, current_user, current_room, current_participant,
                   current_floor_token, next_pid>>

JoinStart(c, m, r) ==
    /\ CanStart(c, m)
    /\ next_pid + JoinsInFlight(Clients) <= MaxJoins
    /\ IF current_user[c] = NoUser
       THEN /\ ret' = Raised(c, "join", "AUTH_FAILED", FALSE)
            /\ tasks' = tasks
       ELSE /\ ret' = Pending(c, "join")
            /\ tasks' = Suspend(c, [op |-> "join", room |-> r])
    /\ emitted' = <<>>
    /\ invoked' = <<>>
    /\ UNCHANGED <<published_tracks, enabled>>
    /\ UNCHANGED <<connected, event_handlers, callbacks>>
    /\ UNCHANGED <<now, current_user, current_room, current_participant,
                   current_floor_token, next_pid>>

JoinFinish(c, t) ==
    /\ t \in Suspended(c)
    /\ t.op = "join"
    /\ current_room' = [current_room EXCEPT ![c] = t.room]
    /\ current_participant' = [current_participant EXCEPT ![c] = next_pid]
    /\ next_pid' = next_pid + 1
    /\ LET e == [event |-> "room-joined", client |-> c,
                 room |-> t.room, participant |-> next_pid]
           d == emit_event(c, "room-joined", e)
       IN /\ event_handlers' = [event_handlers EXCEPT ![c]["room-joined"] = d.handlers]
          /\ invoked' = d.invoked
          /\ UNCHANGED <<published_tracks, enabled>>
          /\ tasks' = WithCreated(Resume(c, t), c, d)
          /\ emitted' = <<e>>
          /\ ret' = IF d.failed
                    THEN Raised(c, "join", "UNKNOWN_ERROR", TRUE)
                    ELSE Returned(c, "join", next_pid)
    /\ UNCHANGED <<now, current_user, current_floor_token, connected, callbacks>>

\* A variant of leave without the test of the current room.
LeaveStartUnchecked(c, m) ==
    /\ CanStart(c, m)
    /\ ret' = Pending(c, "leave")
    /\ tasks' = Suspend(c, [op |-> "leave"])
    /\ emitted' = <<>>
    /\ invoked' = <<>>
    /\ UNCHANGED <<published_tracks, enabled>>
    /\ UNCHANGED <<connected, event_handlers, callbacks>>
    /\ UNCHANGED <<now, current_user, current_room, current_participant,
                   current_floor_token, next_pid>>

LeaveStart(c, m) ==
    /\ CanStart(c, m)
    /\ IF current_room[c] = NoRoom
       THEN /\ ret' = Raised(c, "leave", "ROOM_NOT_FOUND", FALSE)
            /\ tasks' = tasks
       ELSE /\ ret' = Pending(c, "leave")
            /\ tasks' = Suspend(c, [op |-> "leave"])
    /\ emitted' = <<>>
    /\ invoked' = <<>>
    /\ UNCHANGED <<published_tracks, enabled>>
    /\ UNCHANGED <<connected, event_handlers, callbacks>>
    /\ UNCHANGED <<now, current_user, current_room, current_participant,
                   current_floor_token, next_pid>>

\* A variant of leave that clears the room and keeps the participant.
LeaveFinishKeepingParticipant(c, t) ==
    /\ t \in Suspended(c)
    /\ t.op = "leave"
    /\ current_room' = [current_room EXCEPT ![c] = NoRoom]
    /\ LET e == [event |-> "room-left", client |-> c,
                 room |-> current_room[c],
                 participant |-> current_participant[c]]
           d == emit_event(c, "room-left", e)
       IN /\ event_handlers' = [event_handlers EXCEPT ![c]["room-left"] = d.handlers]
          /\ invoked' = d.invoked
          /\ UNCHANGED <<published_tracks, enabled>>
          /\ tasks' = WithCreated(Resume(c, t), c, d)
          /\ emitted' = <<e>>
          /\ ret' = Returned(c, "leave", NoRoom)
    /\ UNCHANGED <<now, current_user, current_floor_token, next_pid,
                   connected, callbacks, current_participant>>

LeaveFinish(c, t) ==
    /\ t \in Suspended(c)
    /\ t.op = "leave"
    /\ current_room' = [current_room EXCEPT ![c] = NoRoom]
    /\ current_participant' = [current_participant EXCEPT ![c] = NoParticipant]
    /\ LET e == [event |-> "room-left", client |-> c,
                 room |-> current_room[c],
                 participant |-> current_participant[c]]
           d == emit_event(c, "room-left", e)
       IN /\ event_handlers' = [event_handlers EXCEPT ![c]["room-left"] = d.handlers]
          /\ invoked' = d.invoked
          /\ UNCHANGED <<published_tracks, enabled>>
          /\ tasks' = WithCreated(Resume(c, t), c, d)
          /\ emitted' = <<e>>
          /\ ret' = IF d.failed
                    THEN Raised(c, "leave", "UNKNOWN_ERROR", TRUE)
                    ELSE Returned(c, "leave", NoRoom)
    /\ UNCHANGED <<now, current_user, current_floor_token, next_pid,
                   connected, callbacks>>

\* ------------------------------------------------------------------ dialogue

\* A variant of request_floor that skips the membership check.
RequestFloorStartUnchecked(c, m, priority) ==
    /\ CanStart(c, m)
    /\ ret' = Pending(c, "request_floor")
    /\ tasks' = Suspend(c, [op |-> "request_floor",
                            priority |-> priority,
                            room |-> current_room[c],
                            participant |-> current_participant[c]])
    /\ emitted' = <<>>
    /\ invoked' = <<>>
    /\ UNCHANGED <<published_tracks, enabled>>
    /\ UNCHANGED <<connected, event_handlers, callbacks>>
    /\ UNCHANGED <<now, current_user, current_room, current_participant,
                   current_floor_token, next_pid>>

\* request_floor(priority) up to its await: the room and the participant are
\* read once, here, and kept in locals; the priority is logged.
RequestFloorStart(c, m, priority) ==
    /\ CanStart(c, m)
    /\ IF current_room[c] = NoRoom \/ current_participant[c] = NoParticipant
       THEN /\ ret' = Raised(c, "request_floor", "FLOOR_DENIED", FALSE)
            /\ tasks' = tasks
       ELSE /\ ret' = Pending(c, "request_floor")
            /\ tasks' = Suspend(c, [op |-> "request_floor",
                                    priority |-> priority,
                                    room |-> current_room[c],
                                    participant |-> current_participant[c]])
    /\ emitted' = <<>>
    /\ invoked' = <<>>
    /\ UNCHANGED <<published_tracks, enabled>>
    /\ UNCHANGED <<connected, event_handlers, callbacks>>
    /\ UNCHANGED <<now, current_user, current_room, current_participant,
                   current_floor_token, next_pid>>

\* request_floor after its await: the mock grant.  The token is stored, then
\* the floor-granted callbacks are notified, then the token is returned; a
\* failure of the notification would be raised as FLOOR_DENIED, retryable.
RequestFloorFinish(c, t) ==
    /\ t \in Suspended(c)
    /\ t.op = "request_floor"
    /\ LET floor_token == FloorToken(t.room, t.participant, now)
           e == [event |-> "floor-granted", client |-> c, token |-> floor_token]
           d == notify_floor_granted(c, e)
       IN /\ current_floor_token' = [current_floor_token EXCEPT ![c] = floor_token]
          /\ callbacks' = [callbacks EXCEPT ![c]["_floor_granted_callbacks"] = d.handlers]
          /\ invoked' = d.invoked
          /\ UNCHANGED <<published_tracks, enabled>>
          /\ tasks' = WithCreated(Resume(c, t), c, d)
          /\ emitted' = <<e>>
          /\ ret' = IF d.failed
                    THEN Raised(c, "request_floor", "FLOOR_DENIED", TRUE)
                    ELSE Returned(c, "request_floor", floor_token)
    /\ UNCHANGED <<now, current_user, current_room, current_participant, next_pid,
                   connected, event_handlers>>

\* A variant of speak that skips the test for a held token.
SpeakStartNoHolderCheck(c, m, n) ==
    /\ CanStart(c, m)
    /\ emitted' = <<>>
    /\ invoked' = <<>>
    /\ UNCHANGED <<published_tracks, enabled>>
    /\ UNCHANGED <<connected, event_handlers, callbacks>>
    /\ IF TokenExpired(current_floor_token[c], now)
       THEN /\ current_floor_token' = [current_floor_token EXCEPT ![c] = NoToken]
            /\ ret' = Raised(c, "speak", "FLOOR_TIMEOUT", TRUE)
            /\ tasks' = tasks
       ELSE IF n = NotText
       THEN /\ ret' = Raised(c, "speak", "UNKNOWN_ERROR", TRUE)
            /\ UNCHANGED <<current_floor_token, tasks>>
       ELSE /\ ret' = Pending(c, "speak")
            /\ tasks' = Suspend(c, [op |-> "speak",
                                    until |-> now + SpeechSeconds(n)])
            /\ UNCHANGED current_floor_token
    /\ UNCHANGED <<now, current_user, current_room, current_participant, next_pid>>

\* A variant of speak that gives the floor up when the speech fails.
SpeakStartReleasingOnFailure(c, m, n) ==
    /\ CanStart(c, m)
    /\ emitted' = <<>>
    /\ invoked' = <<>>
    /\ UNCHANGED <<published_tracks, enabled>>
    /\ UNCHANGED <<connected, event_handlers, callbacks>>
    /\ IF current_floor_token[c] = NoToken
       THEN /\ ret' = Raised(c, "speak", "FLOOR_DENIED", FALSE)
            /\ UNCHANGED <<current_floor_token, tasks>>
       ELSE IF TokenExpired(current_floor_token[c], now)
       THEN /\ current_floor_token' = [current_floor_token EXCEPT ![c] = NoToken]
            /\ ret' = Raised(c, "speak", "FLOOR_TIMEOUT", TRUE)
            /\ tasks' = tasks
       ELSE IF n = NotText
       THEN /\ current_floor_token' = [current_floor_token EXCEPT ![c] = NoToken]
            /\ ret' = Raised(c, "speak", "UNKNOWN_ERROR", TRUE)
            /\ tasks' = tasks
       ELSE /\ ret' = Pending(c, "speak")
            /\ tasks' = Suspend(c, [op |-> "speak",
                                    until |-> now + SpeechSeconds(n)])
            /\ UNCHANGED current_floor_token
    /\ UNCHANGED <<now, current_user, current_room, current_participant, next_pid>>

\* speak up to its await, for a text of n characters, or for a text that is
\* no string (n = NotText): the logging line before the await raises then,
\* and "except Exception" turns it into UNKNOWN_ERROR, retryable.
SpeakStart(c, m, n) ==
    /\ CanStart(c, m)
    /\ emitted' = <<>>
    /\ invoked' = <<>>
    /\ UNCHANGED <<published_tracks, enabled>>
    /\ UNCHANGED <<connected, event_handlers, callbacks>>
    /\ IF current_floor_token[c] = NoToken
       THEN /\ ret' = Raised(c, "speak", "FLOOR_DENIED", FALSE)
            /\ UNCHANGED <<current_floor_token, tasks>>
       ELSE IF TokenExpired(current_floor_token[c], now)
       THEN /\ current_floor_token' = [current_floor_token EXCEPT ![c] = NoToken]
            /\ ret' = Raised(c, "speak", "FLOOR_TIMEOUT", TRUE)
            /\ tasks' = tasks
       ELSE IF n = NotText
       THEN /\ ret' = Raised(c, "speak", "UNKNOWN_ERROR", TRUE)
            /\ UNCHANGED <<current_floor_token, tasks>>
       ELSE /\ ret' = Pending(c, "speak")
            /\ tasks' = Suspend(c, [op |-> "speak",
                                    until |-> now + SpeechSeconds(n)])
            /\ UNCHANGED current_floor_token
    /\ UNCHANGED <<now, current_user, current_room, current_participant, next_pid>>

\* speak after its await: the simulated speech is over.
SpeakFinish(c, t) ==
    /\ t \in Suspended(c)
    /\ t.op = "speak"
    /\ now >= t.until
    /\ tasks' = Resume(c, t)
    /\ ret' = Returned(c, "speak", NoToken)
    /\ emitted' = <<>>
    /\ invoked' = <<>>
    /\ UNCHANGED <<published_tracks, enabled>>
    /\ UNCHANGED <<connected, event_handlers, callbacks>>
    /\ UNCHANGED <<now, current_user, current_room, current_participant,
                   current_floor_token, next_pid>>

\* A variant of release_floor that skips the test for a held token.
ReleaseFloorStartUnguarded(c, m) ==
    /\ CanStart(c, m)
    /\ ret' = Pending(c, "release_floor")
    /\ tasks' = Suspend(c, [op |-> "release_floor"])
    /\ emitted' = <<>>
    /\ invoked' = <<>>
    /\ UNCHANGED <<published_tracks, enabled>>
    /\ UNCHANGED <<connected, event_handlers, callbacks>>
    /\ UNCHANGED <<now, current_user, current_room, current_participant,
                   current_floor_token, next_pid>>

\* release_floor up to its await.
ReleaseFloorStart(c, m) ==
    /\ CanStart(c, m)
    /\ IF current_floor_token[c] = NoToken
       THEN /\ ret' = Returned(c, "release_floor", NoToken)
            /\ tasks' = tasks
       ELSE /\ ret' = Pending(c, "release_floor")
            /\ tasks' = Suspend(c, [op |-> "release_floor"])
    /\ emitted' = <<>>
    /\ invoked' = <<>>
    /\ UNCHANGED <<published_tracks, enabled>>
    /\ UNCHANGED <<connected, event_handlers, callbacks>>
    /\ UNCHANGED <<now, current_user, current_room, current_participant,
                   current_floor_token, next_pid>>

\* release_floor after its await.
ReleaseFloorFinish(c, t) ==
    /\ t \in Suspended(c)
    /\ t.op = "release_floor"
    /\ current_floor_token' = [current_floor_token EXCEPT ![c] = NoToken]
    /\ LET e == [event |-> "floor-released", client |-> c]
           d == emit_event(c, "floor-released", e)
       IN /\ event_handlers' = [event_handlers EXCEPT
                                   ![c]["floor-released"] = d.handlers]
          /\ invoked' = d.invoked
          /\ UNCHANGED <<published_tracks, enabled>>
          /\ tasks' = WithCreated(Resume(c, t), c, d)
          /\ emitted' = <<e>>
    /\ ret' = Returned(c, "release_floor", NoToken)
    /\ UNCHANGED <<now, current_user, current_room, current_participant, next_pid,
                   connected, callbacks>>

\* get_floor_state up to its await: logging only.
GetFloorStateStart(c, m) ==
    /\ CanStart(c, m)
    /\ tasks' = Suspend(c, [op |-> "get_floor_state"])
    /\ ret' = Pending(c, "get_floor_state")
    /\ emitted' = <<>>
    /\ invoked' = <<>>
    /\ UNCHANGED <<published_tracks, enabled>>
    /\ UNCHANGED <<connected, event_handlers, callbacks>>
    /\ UNCHANGED <<now, current_user, current_room, current_participant,
                   current_floor_token, next_pid>>

\* A get_floor_state that clears the token it reports and announces it.
GetFloorStateFinishClearing(c, t) ==
    /\ t \in Suspended(c)
    /\ t.op = "get_floor_state"
    /\ tasks' = Resume(c, t)
    /\ ret' = Returned(c, "get_floor_state",
                       MockFloorState(current_floor_token[c], now))
    /\ current_floor_token' = [current_floor_token EXCEPT ![c] = NoToken]
    /\ emitted' = <<>>
    /\ invoked' = <<>>
    /\ UNCHANGED <<published_tracks, enabled>>
    /\ UNCHANGED <<connected, event_handlers, callbacks>>
    /\ UNCHANGED <<now, current_user, current_room, current_participant,
                   next_pid>>

\* get_floor_state after its await: the snapshot is built from the token
\* the module holds now.
GetFloorStateFinish(c, t) ==
    /\ t \in Suspended(c)
    /\ t.op = "get_floor_state"
    /\ tasks' = Resume(c, t)
    /\ ret' = Returned(c, "get_floor_state",
                       MockFloorState(current_floor_token[c], now))
    /\ emitted' = <<>>
    /\ invoked' = <<>>
    /\ UNCHANGED <<published_tracks, enabled>>
    /\ UNCHANGED <<connected, event_handlers, callbacks>>
    /\ UNCHANGED <<now, current_user, current_room, current_participant,
                   current_floor_token, next_pid>>

\* --------------------------------------------------------------------- media

\* publish_track(track) up to its await: outside a room it raises.
PublishTrackStart(c, m, track) ==
    /\ CanStart(c, m)
    /\ IF current_room[c] = NoRoom
       THEN /\ ret' = Raised(c, "publish_track", "ROOM_NOT_FOUND", FALSE)
            /\ tasks' = tasks
       ELSE /\ ret' = Pending(c, "publish_track")
            /\ tasks' = Suspend(c, [op |-> "publish_track", track |-> track])
    /\ emitted' = <<>>
    /\ invoked' = <<>>
    /\ UNCHANGED <<published_tracks, enabled>>
    /\ UNCHANGED <<connected, event_handlers, callbacks>>
    /\ UNCHANGED <<now, current_user, current_room, current_participant,
                   current_floor_token, next_pid>>

\* publish_track(track) after its await: the track is stored, the callbacks
\* for published tracks are notified and the track-published event is sent.
PublishTrackFinish(c, t) ==
    /\ t \in Suspended(c)
    /\ t.op = "publish_track"
    /\ published_tracks' = [published_tracks EXCEPT ![c] = @ \cup {t.track}]
    /\ LET e == [event |-> "track-published", client |-> c, track |-> t.track]
           n == Notify(callbacks[c]["_track_published_callbacks"], 1, e, NothingDone)
           d == Notify(event_handlers[c]["track-published"], 1, e,
                       [n EXCEPT !.handlers = <<>>])
       IN /\ callbacks' = [callbacks EXCEPT ![c]["_track_published_callbacks"] = n.handlers]
          /\ event_handlers' = [event_handlers EXCEPT ![c]["track-published"] = d.handlers]
          /\ invoked' = d.invoked
          /\ tasks' = WithCreated(Resume(c, t), c, d)
          /\ emitted' = <<e>>
          /\ ret' = IF d.failed
                    THEN Raised(c, "publish_track", "MEDIA_TRACK_FAILED", TRUE)
                    ELSE Returned(c, "publish_track", t.track)
    /\ UNCHANGED <<now, current_user, current_room, current_participant,
                   current_floor_token, next_pid, connected, enabled>>

\* unpublish_track(track) up to its await: it tests nothing.
UnpublishTrackStart(c, m, track) ==
    /\ CanStart(c, m)
    /\ ret' = Pending(c, "unpublish_track")
    /\ tasks' = Suspend(c, [op |-> "unpublish_track", track |-> track])
    /\ emitted' = <<>>
    /\ invoked' = <<>>
    /\ UNCHANGED <<published_tracks, enabled>>
    /\ UNCHANGED <<connected, event_handlers, callbacks>>
    /\ UNCHANGED <<now, current_user, current_room, current_participant,
                   current_floor_token, next_pid>>

\* unpublish_track(track) after its await: the track is taken out of the
\* published tracks if it is among them, it is stopped, and the
\* track-unpublished event is sent.
UnpublishTrackFinish(c, t) ==
    /\ t \in Suspended(c)
    /\ t.op = "unpublish_track"
    /\ published_tracks' = [published_tracks EXCEPT ![c] = @ \ {t.track}]
    /\ enabled' = [enabled EXCEPT ![t.track] = FALSE]
    /\ LET e == [event |-> "track-unpublished", client |-> c, track |-> t.track]
           d == emit_event(c, "track-unpublished", e)
       IN /\ event_handlers' = [event_handlers EXCEPT ![c]["track-unpublished"] = d.handlers]
          /\ invoked' = d.invoked
          /\ tasks' = WithCreated(Resume(c, t), c, d)
          /\ emitted' = <<e>>
          /\ ret' = IF d.failed
                    THEN Raised(c, "unpublish_track", "MEDIA_TRACK_FAILED", TRUE)
                    ELSE Returned(c, "unpublish_track", t.track)
    /\ UNCHANGED <<now, current_user, current_room, current_participant,
                   current_floor_token, next_pid, connected, callbacks>>

\* ------------------------------------------------------------ specification

\* The steps of client c, which awaits at most m calls at a time.
Step(c, m) ==
    \/ SignIn(c, default_email)
    \/ SignOut(c)
    \/ JoinStart(c, m, "room-1")
    \/ \E t \in Suspended(c) : JoinFinish(c, t)
    \/ LeaveStart(c, m)
    \/ \E t \in Suspended(c) : LeaveFinish(c, t)
    \/ RequestFloorStart(c, m, default_priority)
    \/ \E t \in Suspended(c) : RequestFloorFinish(c, t)
    \/ \E n \in TextLengths \cup {NotText} : SpeakStart(c, m, n)
    \/ \E t \in Suspended(c) : SpeakFinish(c, t)
    \/ ReleaseFloorStart(c, m)
    \/ \E t \in Suspended(c) : ReleaseFloorFinish(c, t)
    \/ GetFloorStateStart(c, m)
    \/ \E t \in Suspended(c) : GetFloorStateFinish(c, t)

\* One client whose calls overlap on its event loop; it joins one room.
Next ==
    \/ Tick
    \/ Step("c1", MaxTasks)

Spec == Init /\ [][Next]_vars

\* The calls of client c that decide who holds the floor of a room, each
\* awaited before the client's next call.
StepRoom(c) ==
    \/ SignIn(c, default_email)
    \/ \E r \in RoomIds : JoinStart(c, 1, r)
    \/ \E t \in Suspended(c) : JoinFinish(c, t)
    \/ LeaveStart(c, 1)
    \/ \E t \in Suspended(c) : LeaveFinish(c, t)
    \/ RequestFloorStart(c, 1, default_priority)
    \/ \E t \in Suspended(c) : RequestFloorFinish(c, t)
    \/ ReleaseFloorStart(c, 1)
    \/ \E t \in Suspended(c) : ReleaseFloorFinish(c, t)

\* Two clients (participants) of the same rooms.
NextRoom ==
    \/ Tick
    \/ \E c \in {"c1", "c2"} : StepRoom(c)

SpecRoom == Init /\ [][NextRoom]_vars

\* One client, its connection and the handlers of its connection events.
\* A call is made while fewer than MaxTasks tasks created for coroutine
\* handlers are waiting to run.
NextClient ==
    \/ CanStart("c1", MaxTasks) /\ Connect("c1")
    \/ CanStart("c1", MaxTasks) /\ Disconnect("c1")
    \/ \E h \in Handlers : on("c1", "connected", h)
    \/ on("c1", "disconnected", "plain")
    \/ \E h \in Handlers : unsubscribe("c1", "connected", h)
    \/ \E h \in Handlers : off("c1", "connected", h)
    \/ \E t \in Suspended("c1") : CallbackRun("c1", t)

SpecClient == Init /\ [][NextClient]_vars

\* One client taking and releasing the floor of a room, each call awaited
\* before the next, with callbacks and handlers that return or raise.
NextNotify ==
    \/ SignIn("c1", default_email)
    \/ JoinStart("c1", 1, "room-1")
    \/ \E t \in Suspended("c1") : JoinFinish("c1", t)
    \/ RequestFloorStart("c1", 1, default_priority)
    \/ \E t \in Suspended("c1") : RequestFloorFinish("c1", t)
    \/ ReleaseFloorStart("c1", 1)
    \/ \E t \in Suspended("c1") : ReleaseFloorFinish("c1", t)
    \/ GetFloorStateStart("c1", 1)
    \/ \E t \in Suspended("c1") : GetFloorStateFinish("c1", t)
    \/ \E h \in {"plain", "raising"} : on_floor_granted("c1", h)
    \/ \E h \in {"plain", "raising"} : on("c1", "floor-released", h)
    \/ on_floor_state_change("c1", "plain")

SpecNotify == Init /\ [][NextNotify]_vars

\* One client asking for the floor, with callbacks of every kind for the
\* grant, registered and unsubscribed.
NextGrant ==
    \/ SignIn("c1", default_email)
    \/ JoinStart("c1", 1, "room-1")
    \/ \E t \in Suspended("c1") : JoinFinish("c1", t)
    \/ RequestFloorStart("c1", 1, default_priority)
    \/ \E t \in Suspended("c1") : RequestFloorFinish("c1", t)
    \/ \E h \in Handlers : on_floor_granted("c1", h)
    \/ \E h \in Handlers :
          unsubscribe_callback("c1", "_floor_granted_callbacks", h)
    \/ \E t \in Suspended("c1") : CallbackRun("c1", t)

SpecGrant == Init /\ [][NextGrant]_vars

\* One client and its users, with callbacks for the changes of the user.
NextAuth ==
    \/ \E email \in Emails : CanStart("c1", MaxTasks) /\ SignIn("c1", email)
    \/ \E email \in Emails : CanStart("c1", MaxTasks) /\ SignUp("c1", email)
    \/ CanStart("c1", MaxTasks) /\ SignInWithGoogle("c1")
    \/ CanStart("c1", MaxTasks) /\ SignOut("c1")
    \/ \E h \in Handlers : on_auth_state_change("c1", h)
    \/ \E t \in Suspended("c1") : CallbackRun("c1", t)

SpecAuth == Init /\ [][NextAuth]_vars

\* One client that signs in and out, joins the rooms and leaves them, with
\* handlers registered for the room-joined event.
NextJoin ==
    \/ CanStart("c1", MaxTasks) /\ SignIn("c1", default_email)
    \/ CanStart("c1", MaxTasks) /\ SignOut("c1")
    \/ \E r \in RoomIds : JoinStart("c1", MaxTasks, r)
    \/ \E t \in Suspended("c1") : JoinFinish("c1", t)
    \/ LeaveStart("c1", MaxTasks)
    \/ \E t \in Suspended("c1") : LeaveFinish("c1", t)
    \/ \E h \in {"plain", "raising"} : on("c1", "room-joined", h)

SpecJoin == Init /\ [][NextJoin]_vars

\* No task created for a coroutine handler of client c is waiting to run.
\* Such a task is ready as soon as it is created, and the event loop runs it
\* before any coroutine that suspends after its creation can resume.
NoCallbackPending(c) == \A t \in Suspended(c) : t.op # "callback"

\* One client that requests and releases the floor with plain and coroutine
\* callbacks registered for the grant. Calls are made only while no callback
\* task is waiting, so a coroutine that resumes before a callback task runs
\* was suspended before the task was created.
NextCallback ==
    \/ SignIn("c1", default_email)
    \/ JoinStart("c1", 1, "room-1")
    \/ \E t \in Suspended("c1") : JoinFinish("c1", t)
    \/ NoCallbackPending("c1") /\ RequestFloorStart("c1", MaxTasks, default_priority)
    \/ \E t \in Suspended("c1") : RequestFloorFinish("c1", t)
    \/ NoCallbackPending("c1") /\ ReleaseFloorStart("c1", MaxTasks)
    \/ \E t \in Suspended("c1") : ReleaseFloorFinish("c1", t)
    \/ \E h \in {"plain", "coroutine"} : on_floor_granted("c1", h)
    \/ \E t \in Suspended("c1") : CallbackRun("c1", t)

SpecCallback == Init /\ [][NextCallback]_vars

\* One client that signs in, joins and leaves room-1, and publishes and
\* unpublishes its tracks, with a handler for the track-published event.
NextMedia ==
    \/ SignIn("c1", default_email)
    \/ JoinStart("c1", 1, "room-1")
    \/ \E t \in Suspended("c1") : JoinFinish("c1", t)
    \/ LeaveStart("c1", 1)
    \/ \E t \in Suspended("c1") : LeaveFinish("c1", t)
    \/ \E track \in Tracks : PublishTrackStart("c1", MaxTasks, track)
    \/ \E t \in Suspended("c1") : PublishTrackFinish("c1", t)
    \/ \E track \in Tracks : UnpublishTrackStart("c1", MaxTasks, track)
    \/ \E t \in Suspended("c1") : UnpublishTrackFinish("c1", t)
    \/ on("c1", "track-published", "plain")

SpecMedia == Init /\ [][NextMedia]_vars

\* One client whose callers register handlers for two events, call the
\* unsubscribe function they were given, once or repeatedly, and connect.
NextUnsubscribe ==
    \/ \E h \in {"plain", "raising"} : on("c1", "connected", h)
    \/ \E h \in {"plain", "raising"} : on("c1", "disconnected", h)
    \/ unsubscribe_returned("c1")
    \/ unsubscribe_again("c1")
    \/ \E h \in {"plain", "raising"} : off("c1", "connected", h)
    \/ Connect("c1")
    \/ Disconnect("c1")

SpecUnsubscribe == Init /\ [][NextUnsubscribe]_vars

\* One client on which connect(), disconnect() and start() are called, with
\* handlers for the connected and disconnected events. The sleep of start() ends after a
\* second, so a start() that can return is not kept from it for ever.
NextStart ==
    \/ CanStart("c1", MaxTasks) /\ Connect("c1")
    \/ CanStart("c1", MaxTasks) /\ Disconnect("c1")
    \/ StartStart("c1", MaxTasks)
    \/ \E t \in Suspended("c1") : StartFinish("c1", t)
    \/ \E h \in {"plain", "raising"} : on("c1", "connected", h)
    \/ \E h \in {"plain", "raising"} : on("c1", "disconnected", h)

SpecStart ==
    /\ Init
    /\ [][NextStart]_vars
    /\ WF_vars(\E t \in Suspended("c1") : StartFinish("c1", t))

\* Some participant holds a live token for room r.
FloorBusy(r) ==
    \E h \in Clients :
        /\ current_floor_token[h] # NoToken
        /\ ~TokenExpired(current_floor_token[h], now)
        /\ current_floor_token[h].room_id = r

\* No request_floor is suspended at its await.
NoRequestInFlight ==
    \A d \in Clients : \A t \in Suspended(d) : t.op # "request_floor"

\* The participants of one room asking for its floor with priorities: a
\* first request is made while the floor is free and no other is in flight;
\* every further request is made while the floor is busy.  No token is
\* released and the clock stands still, so the floor stays busy.
NextPriority ==
    \/ \E c \in Clients : SignIn(c, default_email)
    \/ \E c \in Clients : JoinStart(c, 1, "room-1")
    \/ \E c \in Clients : \E t \in Suspended(c) : JoinFinish(c, t)
    \/ \E c \in Clients : \E p \in Priorities :
          /\ FloorBusy("room-1") \/ NoRequestInFlight
          /\ RequestFloorStart(c, 1, p)
    \/ \E c \in Clients : \E t \in Suspended(c) : RequestFloorFinish(c, t)

SpecPriority == Init /\ [][NextPriority]_vars

\* -------------------------------------------------------------------- claims

\* The module of client c holds a token that has not expired.
LiveToken(c) ==
    /\ current_floor_token[c] # NoToken
    /\ ~TokenExpired(current_floor_token[c], now)

\* The last step was the part of operation op of some client before its
\* await: the call was refused there (raise, or the early return of
\* release_floor) or went on to its await (pending).
Called(op) == ret.kind # "none" /\ ret.op = op /\ ret.kind \in {"pending", "raise"}

\* C1: in every reachable state a room has at most one live floor lease: no
\* two participants hold unexpired, unreleased floor tokens for the same room.
C1_AtMostOneLiveLease ==
    \A a, b \in Clients :
        (a # b /\ LiveToken(a) /\ LiveToken(b))
            => current_floor_token[a].room_id # current_floor_token[b].room_id

\* C2: a snapshot returned by get_floor_state names a current holder if and
\* only if the module holds a granted, unreleased and unexpired token of
\* that holder at the moment of the return.
C2_HolderIffLiveLease ==
    (ret.kind = "return" /\ ret.op = "get_floor_state")
        => (ret.value.current_holder # NoParticipant
              <=> /\ LiveToken(ret.client)
                  /\ current_floor_token[ret.client].participant_id
                        = ret.value.current_holder)

\* C3: every snapshot returned by get_floor_state is consistent: its state is
\* a floor-system state, its holder is set exactly when the state is
\* speaking or preparing, and without a holder the state is idle or cooldown.
C3_SnapshotConsistent ==
    (ret.kind = "return" /\ ret.op = "get_floor_state")
        => LET s == ret.value
           IN /\ s.state \in FloorSystemState
              /\ s.current_holder # NoParticipant
                    <=> s.state \in {"speaking", "preparing"}
              /\ s.current_holder = NoParticipant
                    => s.state \in {"idle", "cooldown"}

\* C3 happens: a snapshot with a holder has been returned.
C3_Witness ==
    /\ ret.kind = "return"
    /\ ret.op = "get_floor_state"
    /\ ret.value.current_holder # NoParticipant

\* C4: a request_floor that completes while another participant holds a
\* live lease of the same room grants nothing: it returns no token, and a
\* floor-denied notification with queue position 1 is sent.
C4_BusyFloorQueuesRequest ==
    \A a \in Clients :
        (/\ ret.kind = "return"
         /\ ret.op = "request_floor"
         /\ ret.client # a
         /\ LiveToken(a)
         /\ current_floor_token[a].room_id = ret.value.room_id)
            => /\ current_floor_token[ret.client] # ret.value
               /\ \E i \in DOMAIN emitted :
                     emitted[i].event = "floor-denied" /\ emitted[i].position = 1

\* C5: a request_floor that completes for a participant whose module already
\* holds a live lease of that participant and room fails, and the lease held
\* stays as it was (same granted_at, same expires_at).
C5_DuplicateRequestRejected ==
    [][\A c \in Clients :
          (/\ ret'.kind = "return"
           /\ ret'.op = "request_floor"
           /\ ret'.client = c
           /\ LiveToken(c)
           /\ current_floor_token[c].participant_id = ret'.value.participant_id
           /\ current_floor_token[c].room_id = ret'.value.room_id)
              => current_floor_token'[c] = current_floor_token[c]]_vars

\* C6: request_floor called with no current room or no current participant
\* raises FLOOR_DENIED with retryable = False, starts no grant, leaves every
\* token as it is and sends no notification.
C6_NotInRoomDenied ==
    [][\A c \in Clients :
          (/\ ret'.kind \in {"pending", "raise"}
           /\ ret'.op = "request_floor"
           /\ ret'.client = c
           /\ (current_room[c] = NoRoom \/ current_participant[c] = NoParticipant))
              => /\ ret' = Raised(c, "request_floor", "FLOOR_DENIED", FALSE)
                 /\ current_floor_token' = current_floor_token
                 /\ tasks' = tasks
                 /\ emitted' = <<>>]_vars

\* C6 happens: a request_floor made outside a room has been refused.
C6_Witness ==
    /\ Called("request_floor")
    /\ ret.kind = "raise"
    /\ current_room[ret.client] = NoRoom

\* C7: speak called with a token held: when now is later than expires_at the
\* call raises FLOOR_TIMEOUT, the token is cleared and the floor state names
\* no holder; when now is at most expires_at (equal included) the call is
\* accepted (it goes on to the speech, which starts or fails) and the token
\* is kept.
C7_ExpiredSpeakForcesExpiry ==
    [][\A c \in Clients :
          (/\ ret'.kind \in {"pending", "raise"}
           /\ ret'.op = "speak"
           /\ ret'.client = c
           /\ current_floor_token[c] # NoToken)
              => IF now > current_floor_token[c].expires_at
                 THEN /\ ret'.kind = "raise"
                      /\ ret'.code = "FLOOR_TIMEOUT"
                      /\ current_floor_token'[c] = NoToken
                      /\ MockFloorState(current_floor_token'[c], now').current_holder
                            = NoParticipant
                      /\ tasks' = tasks
                 ELSE /\ \/ ret'.kind = "pending"
                         \/ ret' = Raised(c, "speak", "UNKNOWN_ERROR", TRUE)
                      /\ current_floor_token' = current_floor_token]_vars

\* C7 happens: a speak has been refused for an expired token.
C7_Witness ==
    /\ Called("speak")
    /\ ret.kind = "raise"
    /\ ret.code = "FLOOR_TIMEOUT"
    /\ current_floor_token[ret.client] = NoToken

\* C8: speak called while the module holds no token raises FLOOR_DENIED with
\* retryable = False, starts no speech and changes nothing: tokens, room,
\* participant and the floor state stay as they were, nothing is sent.
C8_SpeakWithoutTokenDenied ==
    [][\A c \in Clients :
          (/\ ret'.kind \in {"pending", "raise"}
           /\ ret'.op = "speak"
           /\ ret'.client = c
           /\ current_floor_token[c] = NoToken)
              => /\ ret' = Raised(c, "speak", "FLOOR_DENIED", FALSE)
                 /\ tasks' = tasks
                 /\ current_floor_token' = current_floor_token
                 /\ MockFloorState(current_floor_token'[c], now')
                       = MockFloorState(current_floor_token[c], now)
                 /\ emitted' = <<>>
                 /\ invoked' = <<>>
                 /\ UNCHANGED <<connected, event_handlers, callbacks>>
                 /\ UNCHANGED <<current_room, current_participant>>]_vars

\* C8 happens: a speak made without a token has been refused.
C8_Witness ==
    /\ Called("speak")
    /\ ret.kind = "raise"
    /\ ret.code = "FLOOR_DENIED"

\* C9: a speak that is accepted ends within the lease: a call whose speech
\* would last beyond expires_at is refused before any speech starts.
C9_SpeechFitsLeaseWindow ==
    [][\A c \in Clients :
          \A t \in BagToSet(tasks'[c]) :
              (t.op = "speak" /\ CopiesIn(t, tasks'[c]) > CopiesIn(t, tasks[c]))
                  => t.until <= current_floor_token'[c].expires_at]_vars

\* C10: while a speak call is in progress its caller holds a live lease.
C10_SpeakingHoldsLiveLease ==
    \A c \in Clients :
        \A t \in Suspended(c) : t.op = "speak" => LiveToken(c)

\* C11: a speak that fails in the speech itself (any failure but the lease
\* tests) leaves the held token as it is, sends nothing and starts nothing;
\* the token is still live, and a speak called next is accepted.
C11_FailedSpeakKeepsLease ==
    [][\A c \in Clients :
          /\ (/\ ret'.kind = "raise"
              /\ ret'.op = "speak"
              /\ ret'.client = c
              /\ ret'.code \notin {"FLOOR_DENIED", "FLOOR_TIMEOUT"})
                 => /\ current_floor_token[c] # NoToken
                    /\ current_floor_token' = current_floor_token
                    /\ ~TokenExpired(current_floor_token'[c], now')
                    /\ tasks' = tasks
                    /\ emitted' = <<>>
                    /\ invoked' = <<>>
                    /\ UNCHANGED <<connected, event_handlers, callbacks>>
          /\ (/\ ret = Raised(c, "speak", "UNKNOWN_ERROR", TRUE)
              /\ ret'.kind \in {"pending", "raise"}
              /\ ret'.op = "speak"
              /\ ret'.client = c)
                 => /\ ret'.kind = "pending"
                    /\ current_floor_token' = current_floor_token]_vars

\* C11 happens: a speech has failed and its caller holds a live token.
C11_Witness ==
    /\ ret.kind = "raise"
    /\ ret.op = "speak"
    /\ ret.code = "UNKNOWN_ERROR"
    /\ LiveToken(ret.client)

\* The step is a call of operation op by client c (the part of the coroutine
\* before its await), not the end of a call made earlier: no coroutine of c
\* has resumed.
CallOf(c, op) ==
    /\ ret'.kind # "none"
    /\ ret'.op = op
    /\ ret'.client = c
    /\ BagCardinality(tasks'[c]) >= BagCardinality(tasks[c])

\* C12: release_floor called while the module holds no token returns at
\* once without an error, sends no floor-released event and changes nothing.
C12_ReleaseWithoutLeaseIsNoOp ==
    [][\A c \in Clients :
          (CallOf(c, "release_floor") /\ current_floor_token[c] = NoToken)
              => /\ ret' = Returned(c, "release_floor", NoToken)
                 /\ emitted' = <<>>
                 /\ invoked' = <<>>
                 /\ UNCHANGED <<connected, event_handlers, callbacks>>
                 /\ tasks' = tasks
                 /\ UNCHANGED <<now, current_user, current_room,
                                current_participant, current_floor_token,
                                next_pid>>]_vars

\* C12 happens: a release_floor made without a token has returned at once.
C12_Witness ==
    /\ ret.kind = "return"
    /\ ret.op = "release_floor"
    /\ emitted = <<>>
    /\ current_floor_token[ret.client] = NoToken

\* Client c's step sent a floor-released event.
FloorReleasedBy(c) ==
    \E i \in DOMAIN emitted' :
        emitted'[i].event = "floor-released" /\ emitted'[i].client = c

\* C13: every floor-released event belongs to a lease of its own: the step
\* that sends it takes a held token away, so that events never outnumber
\* the leases granted, also when two release_floor calls overlap.
C13_OneReleasedEventPerLease ==
    [][\A c \in Clients :
          FloorReleasedBy(c)
              => /\ current_floor_token[c] # NoToken
                 /\ current_floor_token'[c] = NoToken]_vars

\* C14: a release_floor in flight when a request_floor of the same client
\* completes was called before that grant; when it resumes next it does not
\* clear the token just granted.
C14_ReleaseSparesLaterLease ==
    [][\A c \in Clients :
          (/\ ret = Returned(c, "request_floor", current_floor_token[c])
           /\ [op |-> "release_floor"] \in Suspended(c)
           /\ ret'.kind = "return"
           /\ ret'.op = "release_floor"
           /\ ret'.client = c)
              => current_floor_token'[c] = current_floor_token[c]]_vars

\* C15: a lease is not held beyond its 30 seconds: once now is later than
\* expires_at the module holds the token no more and the floor state built
\* from it is not speaking, without any call of the holder.
C15_LeaseExpiresByItself ==
    \A c \in Clients :
        now > current_floor_token[c].granted_at + max_duration
            => /\ current_floor_token[c] = NoToken
               /\ MockFloorState(current_floor_token[c], now).state # "speaking"

\* C16: a step of speak that ends a lease because it has expired sends a
\* release notification (marked as a timeout) to the subscribers.
C16_ExpiryIsNotified ==
    [][\A c \in Clients :
          (/\ ret'.kind = "raise"
           /\ ret'.op = "speak"
           /\ ret'.client = c
           /\ ret'.code = "FLOOR_TIMEOUT"
           /\ current_floor_token[c] # NoToken
           /\ current_floor_token'[c] = NoToken)
              => \E i \in DOMAIN emitted' :
                    /\ emitted'[i].event = "floor-released"
                    /\ emitted'[i].client = c]_vars

\* C17: when a leave returns, the participant that left holds no token and
\* the floor state built from its module names no holder.
C17_LeaveReleasesLease ==
    (ret.kind = "return" /\ ret.op = "leave")
        => /\ current_floor_token[ret.client] = NoToken
           /\ MockFloorState(current_floor_token[ret.client], now).current_holder
                 = NoParticipant

\* C18: a request_floor never ends with a token for a room its participant
\* is not in: the token it returns is for the caller's current room and
\* current participant, also when a leave ran while the request was in flight.
C18_GrantOnlyForCurrentRoom ==
    (ret.kind = "return" /\ ret.op = "request_floor")
        => /\ ret.value.room_id = current_room[ret.client]
           /\ ret.value.participant_id = current_participant[ret.client]

\* C19: the floor state of a module never goes from speaking straight to
\* idle, nor from one lease straight to another: a speaking turn that ends is
\* followed by cooldown.
C19_CooldownAfterSpeaking ==
    [][\A c \in Clients :
          MockFloorState(current_floor_token[c], now).state = "speaking"
              => \/ current_floor_token'[c] = current_floor_token[c]
                 \/ MockFloorState(current_floor_token'[c], now').state
                       = "cooldown"]_vars

\* C20: requests made while the floor is busy are granted in the order of
\* their priorities: a request is not granted while a request of another
\* participant for the same room, also made while the floor was busy, is
\* waiting with a higher priority.
C20_HigherPriorityServedFirst ==
    [][\A c, d \in Clients :
          \A t \in Suspended(c) : \A u \in Suspended(d) :
              (/\ c # d
               /\ t.op = "request_floor"
               /\ u.op = "request_floor"
               /\ t.room = u.room
               /\ FloorBusy(t.room)
               /\ tasks' = Resume(c, t)
               /\ ret' = Returned(c, "request_floor",
                                  FloorToken(t.room, t.participant, now)))
                  => t.priority >= u.priority]_vars

\* C21: the queue of every snapshot returned by get_floor_state contains
\* neither the snapshot's current holder nor a participant id twice.
C21_QueueWithoutHolderOrDuplicates ==
    (ret.kind = "return" /\ ret.op = "get_floor_state")
        => LET queue == ret.value.queue
           IN /\ \A i \in DOMAIN queue :
                    queue[i].participant_id # ret.value.current_holder
              /\ \A i, j \in DOMAIN queue :
                    i # j => queue[i].participant_id # queue[j].participant_id

\* C21 happens: a snapshot has been returned while its holder's lease is live.
C21_Witness ==
    /\ ret.kind = "return"
    /\ ret.op = "get_floor_state"
    /\ LiveToken(ret.client)
    /\ ret.value.current_holder = current_floor_token[ret.client].participant_id

\* The handlers the step invoked, in order.
HandlersInvoked == [i \in DOMAIN invoked' |-> invoked'[i].handler]

\* The number of entries of the list equal to h.
Occurrences(list, h) == Cardinality({i \in DOMAIN list : list[i] = h})

\* The step of client c emitted the event named event.
Emits(c, event) ==
    \E i \in DOMAIN emitted' :
        emitted'[i].event = event /\ emitted'[i].client = c

\* C22: a callback or handler that raises stops nothing: the step that
\* notifies a grant invokes every registered callback in order, returns the
\* token and holds it; the step that emits floor-released invokes every
\* registered handler in order, returns and holds no token.
C22_RaisingSubscriberIsIsolated ==
    [][\A c \in Clients :
          /\ Emits(c, "floor-granted")
                => /\ HandlersInvoked = callbacks[c]["_floor_granted_callbacks"]
                   /\ ret'.kind = "return"
                   /\ ret'.op = "request_floor"
                   /\ current_floor_token'[c] = ret'.value
                   /\ current_floor_token'[c] # NoToken
          /\ Emits(c, "floor-released")
                => /\ HandlersInvoked = event_handlers[c]["floor-released"]
                   /\ ret' = Returned(c, "release_floor", NoToken)
                   /\ current_floor_token'[c] = NoToken]_vars

\* C22 happens: a callback raised, another was invoked after it, and the
\* request_floor returned.
C22_Witness ==
    /\ ret.kind = "return"
    /\ ret.op = "request_floor"
    /\ Len(invoked) = 2
    /\ invoked[1].handler = "raising"
    /\ invoked[2].handler = "plain"

\* The tasks the step created for client c's coroutine handlers.
TasksCreated(c) ==
    BagCardinality([t \in {u \in BagToSet(tasks'[c]) : u.op = "callback"}
                       |-> tasks'[c][t]])
        - BagCardinality([t \in {u \in BagToSet(tasks[c]) : u.op = "callback"}
                             |-> tasks[c][t]])

\* The step delivered its emission to every entry of the list as it was when
\* the emission started: each handler was invoked as often as it was
\* registered, a coroutine handler by a task created for it.
DeliveredToAll(c, list) ==
    /\ \A h \in Handlers \ {"coroutine"} :
          Occurrences(HandlersInvoked, h) = Occurrences(list, h)
    /\ Occurrences(HandlersInvoked, "coroutine") = 0
    /\ TasksCreated(c) = Occurrences(list, "coroutine")

\* C23: an emission of the connected event reaches every handler registered
\* for it when the emission starts, exactly once, also when a handler
\* unsubscribes during the emission.
C23_EmissionReachesAllSubscribers ==
    [][\A c \in Clients :
          Emits(c, "connected")
              => DeliveredToAll(c, event_handlers[c]["connected"])]_vars

\* C24: a request_floor that returns a token has notified every callback
\* registered through on_floor_granted exactly once, with that token, before
\* it returns; a request_floor that fails notifies none.
C24_GrantNotifiesEveryCallback ==
    [][\A c \in Clients :
          (ret'.kind # "none" /\ ret'.op = "request_floor" /\ ret'.client = c)
              => IF ret'.kind = "return"
                 THEN /\ DeliveredToAll(c, callbacks[c]["_floor_granted_callbacks"])
                      /\ \A i \in DOMAIN invoked' :
                            /\ invoked'[i].event.event = "floor-granted"
                            /\ invoked'[i].event.token = ret'.value
                 ELSE invoked' = <<>> /\ TasksCreated(c) = 0]_vars

\* C25: a step that changes the floor state of a module (its holder or its
\* state) notifies the callbacks registered through on_floor_state_change.
C25_FloorStateChangeIsNotified ==
    [][\A c \in Clients :
          LET before == MockFloorState(current_floor_token[c], now)
              after == MockFloorState(current_floor_token'[c], now)
          IN (before # after /\ callbacks[c]["_floor_state_callbacks"] # <<>>)
                => \E i \in DOMAIN invoked' :
                      /\ invoked'[i].event.event = "floor-state-changed"
                      /\ invoked'[i].event.snapshot = after]_vars

\* C26: get_floor_state only reads: the step that starts it and the step that
\* returns its snapshot leave the floor token, the room, the participant, the
\* event handlers and every callback list as they were, emit no event and
\* invoke no handler.
C26_GetFloorStateReadsOnly ==
    [][(ret'.kind # "none" /\ ret'.op = "get_floor_state")
          => /\ UNCHANGED <<current_floor_token, current_room,
                            current_participant, current_user,
                            event_handlers, callbacks>>
             /\ emitted' = <<>>
             /\ invoked' = <<>>]_vars

\* C26 happens: a snapshot was returned to a holder with a callback
\* registered for floor state changes.
C26_Witness ==
    /\ ret.kind = "return"
    /\ ret.op = "get_floor_state"
    /\ current_floor_token[ret.client] # NoToken
    /\ callbacks[ret.client]["_floor_state_callbacks"] # <<>>
    /\ ret.value.current_holder # NoParticipant

\* C27: a get_floor_state that returns a snapshot was called by a client that
\* is in a room; called in no room it raises ROOM_NOT_FOUND.
C27_GetFloorStateNeedsRoom ==
    /\ (ret.kind = "return" /\ ret.op = "get_floor_state")
          => current_room[ret.client] # NoRoom
    /\ (ret.kind = "raise" /\ ret.op = "get_floor_state")
          => ret.code = "ROOM_NOT_FOUND"

\* The entries of a list as a set.
Range(list) == {list[i] : i \in DOMAIN list}

\* C28: a step that emits the connected event invokes every handler that is
\* registered for it (a coroutine handler by a task created for it) and no
\* handler that is not; the step that calls the unsubscribe function of a
\* handler registered once leaves it unregistered.
C28_RegisteredHandlerIsInvokedUntilUnsubscribed ==
    [][\A c \in Clients :
          LET list == event_handlers[c]["connected"]
          IN /\ Emits(c, "connected")
                   => /\ \A h \in Range(list) \ {"coroutine"} :
                            h \in Range(HandlersInvoked)
                      /\ "coroutine" \in Range(list) => TasksCreated(c) > 0
                      /\ Range(HandlersInvoked) \subseteq Range(list)
             /\ \A h \in Handlers :
                   (/\ ret' = Returned(c, "unsubscribe", Registration("connected", h))
                    /\ Occurrences(list, h) <= 1)
                       => h \notin Range(event_handlers'[c]["connected"])]_vars

\* C29: the connected flag of every client is false after construction, true
\* in the state a connect() ends in, false in the state a disconnect() ends
\* in, and changed by no other step.
C29_ConnectedFlagFollowsLastCall ==
    /\ \A c \in Clients : ~connected[c]
    /\ [][\A c \in Clients :
             /\ (ret'.kind \in {"return", "raise"} /\ ret'.op = "connect" /\ ret'.client = c)
                   => connected'[c]
             /\ (ret'.kind \in {"return", "raise"} /\ ret'.op = "disconnect" /\ ret'.client = c)
                   => ~connected'[c]
             /\ connected'[c] # connected[c]
                   => /\ ret'.kind \in {"return", "raise"}
                      /\ ret'.op \in {"connect", "disconnect"}
                      /\ ret'.client = c]_vars

\* C29 happens: a connect() has ended with handlers registered for both
\* events, and the flag is set.
C29_Witness ==
    /\ ret = Returned("c1", "connect", TRUE)
    /\ connected["c1"]
    /\ event_handlers["c1"]["connected"] # <<>>
    /\ event_handlers["c1"]["disconnected"] # <<>>

\* The calls that sign a user in.
SignInCalls == {"sign_in_with_email", "sign_up_with_email", "sign_in_with_google"}

\* C30: get_current_user() gives no user after construction; in the state a
\* sign-in ends in it gives the user that sign-in returned, who carries the
\* email supplied to it; in the state a sign_out ends in it gives no user;
\* and no other step changes what it gives.
C30_CurrentUserFollowsLastAuthCall ==
    /\ \A c \in Clients : get_current_user(c) = NoUser
    /\ [][\A c \in Clients :
             /\ (ret'.kind = "return" /\ ret'.op \in SignInCalls /\ ret'.client = c)
                   => /\ get_current_user(c)' # NoUser
                      /\ get_current_user(c)' = ret'.value
             /\ \A email \in Emails :
                   (SignIn(c, email) \/ SignUp(c, email))
                       => get_current_user(c)'.email = email
             /\ (ret'.kind = "return" /\ ret'.op = "sign_out" /\ ret'.client = c)
                   => get_current_user(c)' = NoUser
             /\ get_current_user(c)' # get_current_user(c)
                   => /\ ret'.kind = "return"
                      /\ ret'.op \in SignInCalls \cup {"sign_out"}
                      /\ ret'.client = c]_vars

\* C30 happens: a sign-in with the second email has ended, with a callback
\* registered, and its user is current.
C30_Witness ==
    /\ ret.kind = "return"
    /\ ret.op = "sign_in_with_email"
    /\ get_current_user("c1") = User("mock-user-id", "b@example.com")
    /\ callbacks["c1"]["_auth_state_callbacks"] # <<>>

\* C31: a step that changes the current user of a client invokes every
\* callback registered through on_auth_state_change once (a coroutine
\* callback by a task created for it), and whenever such a callback is
\* invoked, in that step or later as a task, the value it is given is the
\* value get_current_user() gives at that moment.
C31_AuthCallbacksSeeEachChange ==
    [][\A c \in Clients :
          /\ get_current_user(c)' # get_current_user(c)
                => DeliveredToAll(c, callbacks[c]["_auth_state_callbacks"])
          /\ \A i \in DOMAIN invoked' :
                (invoked'[i].event.event = "auth-state" /\ invoked'[i].event.client = c)
                    => invoked'[i].event.user = get_current_user(c)']_vars

\* C32: in every reachable state a client has a current room exactly when it
\* has a current participant, whatever the interleaving of its join and
\* leave calls.
C32_RoomIffParticipant ==
    \A c \in Clients :
        (current_room[c] = NoRoom) <=> (current_participant[c] = NoParticipant)

\* C32 happens: a join has ended while a leave of the same client, called in
\* an earlier room, is still suspended.
C32_Witness ==
    /\ ret.kind = "return"
    /\ ret.op = "join"
    /\ current_room[ret.client] # NoRoom
    /\ current_participant[ret.client] = ret.value
    /\ \E t \in Suspended(ret.client) : t.op = "leave"

\* C33: every room-left event belongs to a join of its own: the step that
\* sends it finds the client in a room and takes that room away, and the
\* event carries that room and that participant, never the absent ones, also
\* when two leave() calls overlap.
C33_OneRoomLeftPerJoin ==
    [][\A c \in Clients :
          \A i \in DOMAIN emitted' :
              (emitted'[i].event = "room-left" /\ emitted'[i].client = c)
                  => /\ current_room[c] # NoRoom
                     /\ emitted'[i].room = current_room[c]
                     /\ emitted'[i].participant = current_participant[c]
                     /\ emitted'[i].room # NoRoom
                     /\ emitted'[i].participant # NoParticipant
                     /\ current_room'[c] = NoRoom]_vars

\* C34: leave() called by a client that is in no room raises ROOM_NOT_FOUND
\* with retryable = False, suspends nothing, sends no event and leaves the
\* current room, the current participant and the floor token as they are.
C34_LeaveOutsideRoomRefused ==
    [][\A c \in Clients :
          (/\ ret'.kind \in {"pending", "raise"}
           /\ ret'.op = "leave"
           /\ ret'.client = c
           /\ current_room[c] = NoRoom)
              => /\ ret' = Raised(c, "leave", "ROOM_NOT_FOUND", FALSE)
                 /\ tasks' = tasks
                 /\ emitted' = <<>>
                 /\ invoked' = <<>>
                 /\ UNCHANGED <<current_room, current_participant,
                                current_floor_token>>]_vars

\* C34 happens: a leave() was refused outside a room while the client still
\* held a floor token from the room it had left.
C34_Witness ==
    /\ ret = Raised("c1", "leave", "ROOM_NOT_FOUND", FALSE)
    /\ current_room["c1"] = NoRoom
    /\ current_floor_token["c1"] # NoToken

\* The join of client c for room r is the coroutine that the step resumed.
JoinResumed(c, r) ==
    LET t == [op |-> "join", room |-> r]
    IN CopiesIn(t, tasks'[c]) < CopiesIn(t, tasks[c])

\* C35: join() called while no user is signed in raises AUTH_FAILED with
\* retryable = False, suspends nothing, sends no event and leaves the current
\* room and participant as they are; a join() that returns has set the
\* current room to the room it was called for and the current participant to
\* a new one, and has sent exactly one room-joined event carrying both.
C35_JoinNeedsUserAndAnnouncesRoom ==
    [][\A c \in Clients :
          /\ (/\ ret'.kind \in {"pending", "raise"}
              /\ ret'.op = "join"
              /\ ret'.client = c
              /\ get_current_user(c) = NoUser)
                 => /\ ret' = Raised(c, "join", "AUTH_FAILED", FALSE)
                    /\ tasks' = tasks
                    /\ emitted' = <<>>
                    /\ UNCHANGED <<current_room, current_participant>>
          /\ (ret'.kind = "return" /\ ret'.op = "join" /\ ret'.client = c)
                 => /\ JoinResumed(c, current_room'[c])
                    /\ current_room'[c] # NoRoom
                    /\ current_participant'[c] = ret'.value
                    /\ \A d \in Clients : current_participant[d] # ret'.value
                    /\ emitted' = <<[event |-> "room-joined", client |-> c,
                                     room |-> current_room'[c],
                                     participant |-> ret'.value]>>]_vars

\* C35 happens: a join of room-2 has returned to a client that was in room-1,
\* with a handler registered for the event.
C35_Witness ==
    /\ ret.kind = "return"
    /\ ret.op = "join"
    /\ current_room["c1"] = "room-2"
    /\ current_participant["c1"] = 2
    /\ event_handlers["c1"]["room-joined"] # <<>>

\* C36: the callbacks that request_floor invokes in its own step are given
\* the token that is then the module's current floor token; and whenever a
\* callback registered through on_floor_granted runs, in that step or later
\* as a task, the module holds a floor token, so that a speak() issued by
\* the callback is not refused for lack of one.
C36_GrantRecordedBeforeAnnounced ==
    [][\A c \in Clients :
          \A i \in DOMAIN invoked' :
              (invoked'[i].event.event = "floor-granted" /\ invoked'[i].event.client = c)
                  => /\ current_floor_token'[c] # NoToken
                     /\ (ret'.kind # "none" /\ ret'.op = "request_floor")
                           => current_floor_token'[c] = invoked'[i].event.token]_vars

\* C37: connected and disconnected events alternate, the first being
\* connected: a step sends connected only for a client that is not
\* connected, and disconnected only for one that is.
C37_ConnectionEventsAlternate ==
    [][\A c \in Clients :
          /\ Emits(c, "connected") => ~connected[c]
          /\ Emits(c, "disconnected") => connected[c]]_vars

\* A start() of client c is running, suspended at its sleep.
StartRunning(c) == \E t \in Suspended(c) : t.op = "start"

\* C38: the step that calls start() leaves the client connected and start()
\* running; start() returns only for a client that is not connected, and the
\* client is not connected when it has returned; and once the client is
\* disconnected while a start() is running, that start() returns unless the
\* client is connected again.
C38_StartRunsWhileConnected ==
    /\ [][\A c \in Clients :
             /\ (ret' = Pending(c, "start"))
                   => connected'[c] /\ StartRunning(c)'
             /\ (ret'.kind = "return" /\ ret'.op = "start" /\ ret'.client = c)
                   => ~connected[c] /\ ~connected'[c]
             /\ (StartRunning(c) /\ connected[c] /\ connected'[c])
                   => StartRunning(c)']_vars
    /\ \A c \in Clients :
          (StartRunning(c) /\ ~connected[c]) ~> (~StartRunning(c) \/ connected[c])

\* C38 happens: a start() that connected the client has returned after a
\* disconnect(), and the client is not connected.
C38_Witness ==
    /\ ret = Returned("c1", "start", FALSE)
    /\ ~connected["c1"]
    /\ ~StartRunning("c1")
    /\ emitted = <<[event |-> "disconnected", client |-> "c1"]>>

\* C39: the unsubscribe function that on() returned, called by the step after
\* that on(), takes away the registration on() has just appended, the last of
\* the event's list, and nothing else; called again it changes no list.
C39_UnsubscribeRemovesOwnRegistrationOnce ==
    [][\A c \in Clients :
          /\ (/\ ret.kind = "return" /\ ret.op = "on" /\ ret.client = c
              /\ ret'.kind = "return" /\ ret'.op = "unsubscribe" /\ ret'.client = c)
                 => LET list == event_handlers[c][ret.value.event]
                    IN event_handlers' =
                          [event_handlers EXCEPT ![c][ret.value.event] =
                              SubSeq(list, 1, Len(list) - 1)]
          /\ (ret'.kind = "return" /\ ret'.op = "unsubscribe_again" /\ ret'.client = c)
                 => event_handlers' = event_handlers]_vars

\* C40: in every reachable state no published track of a client has been
\* stopped; and publish_track called by a client that is in no room raises
\* ROOM_NOT_FOUND with retryable = False and adds no track.
C40_PublishedTracksAreLive ==
    /\ [](\A c \in Clients : \A track \in published_tracks[c] : enabled[track])
    /\ [][\A c \in Clients :
             (/\ ret'.kind \in {"pending", "raise"}
              /\ ret'.op = "publish_track"
              /\ ret'.client = c
              /\ current_room[c] = NoRoom)
                 => /\ ret' = Raised(c, "publish_track", "ROOM_NOT_FOUND", FALSE)
                    /\ tasks' = tasks
                    /\ published_tracks' = published_tracks]_vars

=============================================================================
